---- MODULE Spec2Model ----
(***************************************************************************)
(* Model of the numeric pipeline of blender_render.py:                     *)
(*   normalize_points -> heatmap_grid -> heatmap_barplot (up to the cube   *)
(*   emitted per bar), together with the module-level global `points`      *)
(*   that heatmap_grid reads.                                              *)
(*                                                                         *)
(* Numbers.  Raw coordinates are integers.  Normalised coordinates and     *)
(* kernel exponents are exact rationals <<num, den>> in lowest terms; a    *)
(* zero denominator stands for the IEEE special values (<<0,0>> is NaN,    *)
(* <<1,0>> +inf, <<-1,0>> -inf).  Values of np.exp / np.log are fixed      *)
(* point integers in units of 1/Scale.                                     *)
(***************************************************************************)
EXTENDS Integers, Sequences, FiniteSets

VARIABLES points, data, hist, bars

vars == <<points, data, hist, bars>>

(* ------------------------------ bounds --------------------------------- *)
MaxCoord == 2
MaxPts == 2
MaxN == 3
MaxM == 2
MaxOffset == 1

(* --------------------------- exact arithmetic -------------------------- *)
Abs(a) == IF a < 0 THEN -a ELSE a

Sgn(a) == IF a < 0 THEN -1 ELSE IF a > 0 THEN 1 ELSE 0

RECURSIVE GCD(_, _)
GCD(a, b) == IF b = 0 THEN a ELSE GCD(b, a % b)

NaN == <<0, 0>>

IsFinite(r) == r[2] # 0

RNorm(n, d) ==
    IF d = 0 THEN <<Sgn(n), 0>>
    ELSE LET g == GCD(Abs(n), Abs(d))
             s == IF d < 0 THEN -1 ELSE 1
         IN  <<(s * n) \div g, (s * d) \div g>>

R(k) == <<k, 1>>

Half == <<1, 2>>

RNeg(a) == <<-a[1], a[2]>>

RAdd(a, b) ==
    IF IsFinite(a) /\ IsFinite(b) THEN RNorm(a[1] * b[2] + b[1] * a[2], a[2] * b[2])
    ELSE IF IsFinite(b) THEN a
    ELSE IF IsFinite(a) THEN b
    ELSE IF a = b THEN a ELSE NaN

RSub(a, b) == RAdd(a, RNeg(b))

RMul(a, b) ==
    IF IsFinite(a) /\ IsFinite(b) THEN RNorm(a[1] * b[1], a[2] * b[2])
    ELSE IF a = NaN \/ b = NaN THEN NaN
    ELSE <<Sgn(a[1]) * Sgn(b[1]), 0>>

RDiv(a, b) ==
    IF IsFinite(a) /\ IsFinite(b) THEN RNorm(a[1] * b[2], a[2] * b[1])
    ELSE IF IsFinite(a) /\ b # NaN THEN R(0)
    ELSE IF IsFinite(b) /\ a # NaN THEN <<a[1] * (IF b[1] < 0 THEN -1 ELSE 1), 0>>
    ELSE NaN

RLeq(a, b) == IsFinite(a) /\ IsFinite(b) /\ a[1] * b[2] <= b[1] * a[2]

(* ------------------------------- inputs -------------------------------- *)
(* Projected points on the integer lattice, x + y <= MaxCoord.            *)
RawPoints == {p \in (0..MaxCoord) \X (0..MaxCoord) : p[1] + p[2] <= MaxCoord}

PointSeqs == UNION {[1..k -> RawPoints] : k \in 0..MaxPts}

RECURSIVE MinOf(_, _, _)
MinOf(s, c, k) ==
    IF k = Len(s) THEN s[k][c]
    ELSE LET r == MinOf(s, c, k + 1) IN IF s[k][c] < r THEN s[k][c] ELSE r

RECURSIVE MaxOf(_, _, _)
MaxOf(s, c, k) ==
    IF k = Len(s) THEN s[k][c]
    ELSE LET r == MaxOf(s, c, k + 1) IN IF s[k][c] > r THEN s[k][c] ELSE r

(* ---------------------------- normalize_points ------------------------- *)
(* Divisor taking the smaller range. *)
MutDivisor(rangeX, rangeY) == IF rangeX > rangeY THEN rangeY ELSE rangeX

Divisor(rangeX, rangeY) == IF rangeX > rangeY THEN rangeX ELSE rangeY

(* NormCoord with the minimum not subtracted. *)
MutNormCoord(v, minV, rangeV, div) ==
    RAdd(RDiv(RSub(R(v), RMul(Half, R(rangeV))), R(div)), Half)

NormCoord(v, minV, rangeV, div) ==
    RAdd(RDiv(RSub(RSub(R(v), R(minV)), RMul(Half, R(rangeV))), R(div)), Half)

normalize_points(pts) ==
    IF Len(pts) = 0
    THEN [status |-> "ValueError", arg |-> pts, out |-> <<>>]
    ELSE LET minX == MinOf(pts, 1, 1)
             minY == MinOf(pts, 2, 1)
             maxX == MaxOf(pts, 1, 1)
             maxY == MaxOf(pts, 2, 1)
             rangeX == maxX - minX
             rangeY == maxY - minY
             div == Divisor(rangeX, rangeY)
         IN  [status |-> "ok", arg |-> pts,
              out |-> [k \in 1..Len(pts) |->
                         <<NormCoord(pts[k][1], minX, rangeX, div),
                           NormCoord(pts[k][2], minY, rangeY, div)>>]]

(* --------------------------- np.exp and np.log ------------------------- *)
Scale == 10000

RECURSIVE ExpSeries(_, _, _)
ExpSeries(f, term, k) ==
    IF k > 8 \/ term = 0 THEN 0
    ELSE LET nxt == (term * f) \div (k * Scale)
         IN  (IF k % 2 = 1 THEN -nxt ELSE nxt) + ExpSeries(f, nxt, k + 1)

ExpFrac(f) == Scale + ExpSeries(f, Scale, 1)

ExpOne == ExpFrac(Scale)

RECURSIVE ExpInt(_, _)
ExpInt(v, k) == IF k = 0 \/ v = 0 THEN v ELSE ExpInt((v * ExpOne) \div Scale, k - 1)

ExpNeg(q) ==
    IF ~IsFinite(q) THEN 0 ELSE
    LET k == q[1] \div q[2]
        f == ((q[1] % q[2]) * Scale) \div q[2]
    IN  IF k > 10 THEN 0 ELSE ExpInt(ExpFrac(f), k)

RECURSIVE LnSeries(_, _, _)
LnSeries(u, pow, k) ==
    IF k > 9 \/ pow = 0 THEN 0
    ELSE (2 * pow) \div k + LnSeries(u, (((pow * u) \div Scale) * u) \div Scale, k + 2)

LnCore(v) == LET u == ((v - Scale) * Scale) \div (v + Scale) IN LnSeries(u, u, 1)

LnTwo == LnCore(2 * Scale)

RECURSIVE LnFix(_)
LnFix(v) == IF v < 2 * Scale THEN LnCore(v) ELSE LnTwo + LnFix(v \div 2)

(* ------------------------------ heatmap_grid --------------------------- *)
(* BucketCount is line 40's len(points): the module global, not the        *)
(* argument.  Bucketing stops at the first exception, as the loop does.    *)
NValues == 2..MaxN

MValues == 0..MaxM

SigmaSqValues == {<<1, 10>>, <<1, 20000>>}

Cells(n) == (0..(n - 1)) \X (0..(n - 1))

PyInt(r) == Sgn(r[1]) * (Abs(r[1]) \div r[2])

(* BucketIndex scaling by n instead of n - 1. *)
MutBucketIndex(x, n) == PyInt(RMul(x, R(n)))

BucketIndex(x, n) == PyInt(RMul(x, R(n - 1)))

PyIndex(i, n) == IF i < 0 THEN i + n ELSE i

Max2(a, b) == IF a > b THEN a ELSE b

Min2(a, b) == IF a < b THEN a ELSE b

BucketCount(d) == Len(points)

RECURSIVE Bucketing(_, _, _, _, _)
Bucketing(d, n, idx, X, cells) ==
    IF idx > BucketCount(d)
    THEN [status |-> "ok", X |-> X, cells |-> cells]
    ELSE IF idx > Len(d)
    THEN [status |-> "IndexError", X |-> X, cells |-> cells]
    ELSE IF ~IsFinite(d[idx][1]) \/ ~IsFinite(d[idx][2])
    THEN [status |-> "ValueError", X |-> X, cells |-> cells]
    ELSE LET i == BucketIndex(d[idx][1], n)
             j == BucketIndex(d[idx][2], n)
             seen == Append(cells, <<i, j>>)
         IN  IF i \notin (-n)..(n - 1) \/ j \notin (-n)..(n - 1)
             THEN [status |-> "IndexError", X |-> X, cells |-> seen]
             ELSE LET c == <<PyIndex(i, n), PyIndex(j, n)>>
                  IN  Bucketing(d, n, idx + 1,
                                [X EXCEPT ![c] = Append(@, d[idx])], seen)

Kernel(x0, y0, p, sigma_sq) ==
    LET dx == RSub(x0, p[1])
        dy == RSub(y0, p[2])
        two == RMul(R(2), sigma_sq)
    IN  ExpNeg(RAdd(RDiv(RMul(dx, dx), two), RDiv(RMul(dy, dy), two)))

RECURSIVE BucketSum(_, _, _, _, _)
BucketSum(ps, k, x0, y0, sigma_sq) ==
    IF k > Len(ps) THEN 0
    ELSE Kernel(x0, y0, ps[k], sigma_sq) + BucketSum(ps, k + 1, x0, y0, sigma_sq)

RECURSIVE SumOver(_, _, _, _, _, _, _)
SumOver(w, i, j, X, x0, y0, sigma_sq) ==
    IF i >= w[2] THEN 0
    ELSE IF j >= w[4] THEN SumOver(w, i + 1, w[3], X, x0, y0, sigma_sq)
    ELSE BucketSum(X[<<i, j>>], 1, x0, y0, sigma_sq)
           + SumOver(w, i, j + 1, X, x0, y0, sigma_sq)

(* Window with an inclusive upper end, i0 - m .. i0 + m. *)
MutWindow(i0, j0, n, m) ==
    <<Max2(0, i0 - m), Min2(i0 + m + 1, n), Max2(0, j0 - m), Min2(j0 + m + 1, n)>>

Window(i0, j0, n, m) ==
    <<Max2(0, i0 - m), Min2(i0 + m, n), Max2(0, j0 - m), Min2(j0 + m, n)>>

(* GridCell summing every bucket of the grid, whatever m is. *)
MutGridCell(X, i0, j0, sigma_sq, n, m) ==
    SumOver(<<0, n, 0, n>>, 0, 0, X, RDiv(R(i0), R(n - 1)), RDiv(R(j0), R(n - 1)), sigma_sq)

GridCell(X, i0, j0, sigma_sq, n, m) ==
    LET w == Window(i0, j0, n, m)
    IN  SumOver(w, w[1], w[3], X, RDiv(R(i0), R(n - 1)), RDiv(R(j0), R(n - 1)), sigma_sq)

heatmap_grid(d, sigma_sq, n, m) ==
    LET b == Bucketing(d, n, 1, [c \in Cells(n) |-> <<>>], <<>>)
    IN  [status |-> b.status, data |-> d, sigma_sq |-> sigma_sq, n |-> n, m |-> m,
         X |-> b.X, cells |-> b.cells,
         grid |-> IF b.status = "ok"
                  THEN [c \in Cells(n) |-> GridCell(b.X, c[1], c[2], sigma_sq, n, m)]
                  ELSE <<>>]

(* ----------------------------- heatmap_barplot ------------------------ *)
num_colors == 10

h == 4

width == 10

bar_scale == <<9, 10>>

Epsilon == <<1, 1000>>

(* AboveThreshold with the sign of the threshold flipped (z > -0.001). *)
MutAboveThreshold(z) == ~RLeq(RNorm(z, Scale), RNeg(Epsilon))

AboveThreshold(z) == ~RLeq(RNorm(z, Scale), Epsilon)

LogScale(grid, logarithmic) ==
    IF logarithmic THEN [c \in DOMAIN grid |-> LnFix(grid[c] + Scale)] ELSE grid

RECURSIVE MaxCell(_, _, _)
MaxCell(grid, n, c) ==
    IF c = n * n - 1 THEN grid[<<c \div n, c % n>>]
    ELSE Max2(grid[<<c \div n, c % n>>], MaxCell(grid, n, c + 1))

Density(z, z_max) == Scale - ExpNeg(RDiv(RNorm(z, z_max), <<1, 5>>))

ColorIndex(t) == Min2(PyInt(RNorm(num_colors * t, Scale)), num_colors - 1)

BarHeight(z, z_max, bar_width) ==
    RAdd(RMul(RSub(R(h), bar_width), RNorm(z, z_max)), bar_width)

RECURSIVE BarLoop(_, _, _, _, _, _)
BarLoop(grid, z_max, n, c, bmList, divisions) ==
    IF c = n * n
    THEN [status |-> "ok", grid |-> grid, z_max |-> z_max,
          bmList |-> bmList, divisions |-> divisions]
    ELSE LET i == c \div n
             j == c % n
             z == grid[<<i, j>>]
         IN  IF ~AboveThreshold(z)
             THEN BarLoop(grid, z_max, n, c + 1, bmList, divisions)
             ELSE IF RNorm(z, z_max) = NaN
             THEN [status |-> "ValueError", grid |-> grid, z_max |-> z_max,
                   bmList |-> bmList, divisions |-> Append(divisions, <<i, j>>)]
             ELSE LET bar_width == RDiv(RMul(bar_scale, R(width)), R(n))
                      k == ColorIndex(Density(z, z_max))
                      cube == [i |-> i, j |-> j,
                               bar_height |-> BarHeight(z, z_max, bar_width)]
                  IN  BarLoop(grid, z_max, n, c + 1,
                              [bmList EXCEPT ![k + 1] = Append(@, cube)],
                              Append(divisions, <<i, j>>))

heatmap_barplot(grid, n, logarithmic) ==
    LET g == LogScale(grid, logarithmic)
    IN  BarLoop(g, MaxCell(g, n, 0), n, 0, [k \in 1..num_colors |-> <<>>], <<>>)

(* ------------------------------- the state ----------------------------- *)
NoData == [status |-> "none", arg |-> <<>>, out |-> <<>>]

NoHist == [status |-> "none"]

NoBars == [status |-> "none"]

RebindSeqs == {[i \in 1..k |-> <<0, 0>>] : k \in 0..MaxPts}

Init ==
    /\ points \in PointSeqs
    /\ data = NoData
    /\ hist = NoHist
    /\ bars = NoBars

Normalize ==
    /\ data.status = "none"
    /\ data' = normalize_points(points)
    /\ UNCHANGED <<points, hist, bars>>

RebindPoints(ps) ==
    /\ data.status # "none"
    /\ ps # points
    /\ points' = ps
    /\ UNCHANGED <<data, hist, bars>>

HeatmapGrid(sigma_sq, n, m) ==
    /\ data.status = "ok"
    /\ hist.status = "none"
    /\ hist' = heatmap_grid(data.out, sigma_sq, n, m)
    /\ bars' = NoBars
    /\ UNCHANGED <<points, data>>

CallHeatmapGrid(d, sigma_sq, n, m) ==
    /\ data.status # "none"
    /\ hist' = heatmap_grid(d, sigma_sq, n, m)
    /\ bars' = NoBars
    /\ UNCHANGED <<points, data>>

Barplot(logarithmic) ==
    /\ hist.status = "ok"
    /\ bars.status = "none"
    /\ bars' = heatmap_barplot(hist.grid, hist.n, logarithmic)
    /\ UNCHANGED <<points, data, hist>>

(* The script: load, normalize, build the grid, map it to bars. *)
Next ==
    \/ Normalize
    \/ \E sigma_sq \in SigmaSqValues, n \in NValues, m \in MValues :
          HeatmapGrid(sigma_sq, n, m)
    \/ \E logarithmic \in BOOLEAN : Barplot(logarithmic)

Spec == Init /\ [][Next]_vars

(* The functions called as functions: with any argument, any number of     *)
(* times, while the module global `points` is rebound between the calls.   *)
NextSession ==
    \/ Normalize
    \/ \E ps \in RebindSeqs : RebindPoints(ps)
    \/ \E d \in {data.out, <<>>}, sigma_sq \in SigmaSqValues, n \in NValues, m \in MValues :
          CallHeatmapGrid(d, sigma_sq, n, m)
    \/ \E logarithmic \in BOOLEAN : Barplot(logarithmic)

SpecSession == Init /\ [][NextSession]_vars

(* =============================== claims ================================ *)
RangeOf(pts, c) == MaxOf(pts, c, 1) - MinOf(pts, c, 1)

Degenerate(pts) == Len(pts) > 0 /\ RangeOf(pts, 1) = 0 /\ RangeOf(pts, 2) = 0

NonDegenerate(pts) == Len(pts) > 0 /\ ~Degenerate(pts)

LargerRange(pts) == Max2(RangeOf(pts, 1), RangeOf(pts, 2))

Normalized == data.status = "ok" /\ NonDegenerate(data.arg)

(* The state normalize_points returns into; data is not assigned again.    *)
NormalizeReturned == Normalized /\ hist.status = "none"

(* The state a call of heatmap_grid returns into; every call resets bars.  *)
GridReturned == hist.status = "ok" /\ bars.status = "none"

InClaimWindow(c, c0, n, m) ==
    /\ Max2(0, c0[1] - m) <= c[1] /\ c[1] < Min2(c0[1] + m, n)
    /\ Max2(0, c0[2] - m) <= c[2] /\ c[2] < Min2(c0[2] + m, n)

RECURSIVE ClaimSum(_, _, _)
ClaimSum(k, c0, hg) ==
    IF k = hg.n * hg.n THEN 0
    ELSE LET c == <<k \div hg.n, k % hg.n>>
         IN  (IF InClaimWindow(c, c0, hg.n, hg.m)
              THEN BucketSum(hg.X[c], 1, RDiv(R(c0[1]), R(hg.n - 1)),
                             RDiv(R(c0[2]), R(hg.n - 1)), hg.sigma_sq)
              ELSE 0)
             + ClaimSum(k + 1, c0, hg)

RECURSIVE TotalEntries(_, _, _)
TotalEntries(X, n, k) ==
    IF k = n * n THEN 0
    ELSE Len(X[<<k \div n, k % n>>]) + TotalEntries(X, n, k + 1)

Floor(r) == r[1] \div r[2]

EmptyWindow(c0, hg) ==
    \A c \in Cells(hg.n) : InClaimWindow(c, c0, hg.n, hg.m) => hg.X[c] = <<>>

Shift(pts, c) == [k \in 1..Len(pts) |-> <<pts[k][1] + c[1], pts[k][2] + c[2]>>]

Offsets == ((-MaxOffset)..MaxOffset) \X ((-MaxOffset)..MaxOffset)

CubesAt(c) ==
    UNION {{<<g, k>> : k \in {e \in DOMAIN bars.bmList[g] :
                                 bars.bmList[g][e].i = c[1] /\ bars.bmList[g][e].j = c[2]}} :
           g \in 1..num_colors}

(* C1: normalize on a non-empty point set whose x-range and y-range are    *)
(* both zero ends in a DegenerateInputError and returns no normalized      *)
(* points.                                                                 *)
C1_DegenerateRaises ==
    (data.status # "none" /\ Degenerate(data.arg))
        => (data.status = "DegenerateInputError" /\ data.out = <<>>)

(* C2: in a returned grid, cell (i0, j0) is the sum of the kernel          *)
(* contributions of exactly the bucketed points whose bucket (i, j) has    *)
(* max(0,i0-m) <= i < min(i0+m,n) and max(0,j0-m) <= j < min(j0+m,n),      *)
(* each counted once.                                                      *)
C2_Window ==
    GridReturned
        => \A c0 \in Cells(hist.n) : hist.grid[c0] = ClaimSum(0, c0, hist)

C2_Witness ==
    /\ hist.status = "ok"
    /\ hist.m > 0
    /\ \E c0 \in Cells(hist.n), c \in Cells(hist.n), e \in Cells(hist.n) :
          /\ InClaimWindow(c, c0, hist.n, hist.m) /\ hist.X[c] # <<>>
          /\ e[1] = c0[1] + hist.m /\ hist.X[e] # <<>>
          /\ hist.grid[c0] > 0

(* C3: after the bucketing step the buckets hold every point of the        *)
(* sequence passed to the call exactly once, each in cell                  *)
(* (floor(x*(n-1)), floor(y*(n-1))), whatever the global point list is.    *)
C3_AllBucketed ==
    (/\ hist.status = "ok"
     /\ \A k \in 1..Len(hist.data) : IsFinite(hist.data[k][1]) /\ IsFinite(hist.data[k][2]))
        => /\ TotalEntries(hist.X, hist.n, 0) = Len(hist.data)
           /\ \A k \in 1..Len(hist.data) :
                 \E e \in 1..Len(hist.data) :
                    LET c == <<Floor(RMul(hist.data[k][1], R(hist.n - 1))),
                               Floor(RMul(hist.data[k][2], R(hist.n - 1)))>>
                    IN  /\ c \in Cells(hist.n)
                        /\ e <= Len(hist.X[c])
                        /\ hist.X[c][e] = hist.data[k]

(* C4: for a point set with a non-zero range, the axis with the larger     *)
(* range is mapped exactly onto [0,1] (minimum to 0, maximum to 1, all     *)
(* coordinates within, bounding box centred at 1/2), and both axes are     *)
(* divided by that same larger range.                                      *)
C4_DominantAxis ==
    NormalizeReturned =>
        LET pts == data.arg
            out == data.out
            big == LargerRange(pts)
            K == 1..Len(pts)
        IN  /\ \A a \in {1, 2} :
                   RangeOf(pts, a) = big =>
                      /\ \E k \in K : pts[k][a] = MinOf(pts, a, 1) /\ out[k][a] = R(0)
                      /\ \E k \in K : pts[k][a] = MaxOf(pts, a, 1) /\ out[k][a] = R(1)
                      /\ \A k \in K : RLeq(R(0), out[k][a]) /\ RLeq(out[k][a], R(1))
                      /\ \A k1, k2 \in K :
                            (\A k \in K : RLeq(out[k1][a], out[k][a]) /\ RLeq(out[k][a], out[k2][a]))
                               => RMul(Half, RAdd(out[k1][a], out[k2][a])) = Half
            /\ \A a \in {1, 2} : \A k1, k2 \in K :
                   RSub(out[k1][a], out[k2][a]) = RNorm(pts[k1][a] - pts[k2][a], big)

C4_Witness ==
    /\ Normalized
    /\ RangeOf(data.arg, 1) > RangeOf(data.arg, 2)
    /\ RangeOf(data.arg, 2) > 0
    /\ \E k \in 1..Len(data.arg) : data.out[k][1] = R(1)

(* C5: in a returned grid every cell is non-negative, and a target cell    *)
(* whose search window holds no bucketed point is exactly 0.               *)
C5_NonNegative ==
    GridReturned
        => \A c0 \in Cells(hist.n) :
              /\ hist.grid[c0] >= 0
              /\ EmptyWindow(c0, hist) => hist.grid[c0] = 0

C5_Witness ==
    /\ hist.status = "ok"
    /\ hist.sigma_sq = <<1, 10>>
    /\ Len(hist.data) > 0
    /\ \E c0 \in Cells(hist.n), c1 \in Cells(hist.n) :
          /\ EmptyWindow(c0, hist) /\ hist.grid[c0] = 0
          /\ hist.grid[c1] > 0

(* C6: for an empty point set heatmap_grid returns a grid of zeros, and    *)
(* the height/color mapping of that grid emits no bar and evaluates no     *)
(* division by z_max.                                                      *)
C6_EmptyGrid ==
    (hist.status # "none" /\ hist.data = <<>>)
        => /\ hist.status = "ok"
           /\ \A c \in Cells(hist.n) : hist.grid[c] = 0
           /\ bars.status # "none"
                 => /\ bars.status = "ok"
                    /\ bars.divisions = <<>>
                    /\ \A g \in 1..num_colors : bars.bmList[g] = <<>>

(* C7: a bar is emitted for cell (i, j) exactly when its (optionally       *)
(* log-transformed) value is strictly above 0.001, and each emitted bar    *)
(* lies in exactly one color group k = min(floor(numColors*t),             *)
(* numColors-1), 0 <= k <= numColors-1.                                    *)
C7_Bars ==
    bars.status = "ok"
        => \A c \in Cells(hist.n) :
              LET z == bars.grid[c]
              IN  /\ Cardinality(CubesAt(c)) = IF z * 1000 > Scale THEN 1 ELSE 0
                  /\ \A gk \in CubesAt(c) :
                        LET t == Density(z, bars.z_max)
                            k == Min2((num_colors * t) \div Scale, num_colors - 1)
                        IN  gk[1] - 1 = k /\ 0 <= k /\ k <= num_colors - 1

C7_Witness ==
    /\ bars.status = "ok"
    /\ \E c \in Cells(hist.n) : CubesAt(c) = {}
    /\ \E c1, c2 \in Cells(hist.n) :
          \E g1 \in CubesAt(c1), g2 \in CubesAt(c2) : g1[1] # g2[1]

(* C8: normalizing the point set shifted by a constant offset gives,       *)
(* point by point and in the same order, the output of normalizing the     *)
(* point set itself.                                                       *)
C8_Translation ==
    NormalizeReturned
        => \A c \in Offsets : normalize_points(Shift(data.arg, c)).out = data.out

C8_Witness ==
    /\ Normalized
    /\ Len(data.arg) > 1
    /\ RangeOf(data.arg, 1) > 0 /\ RangeOf(data.arg, 2) > 0
    /\ \E c \in Offsets :
          /\ c[1] # 0 /\ c[2] # 0
          /\ normalize_points(Shift(data.arg, c)).out = data.out

(* C9: two calls of heatmap_grid with identical (data, sigma_sq, n, m)     *)
(* return identical results, whatever happened between them.               *)
C9_Pure ==
    [][(/\ hist.status = "ok"
        /\ hist'.status = "ok"
        /\ hist'.data = hist.data
        /\ hist'.sigma_sq = hist.sigma_sq
        /\ hist'.n = hist.n
        /\ hist'.m = hist.m)
          => hist'.grid = hist.grid]_vars

(* C10: for the output of normalize on a non-degenerate point set and      *)
(* every n >= 2, each point is bucketed at indices 0 <= i, j <= n-1 and    *)
(* stored in that very cell.                                               *)
C10_IndicesInGrid ==
    (hist.status # "none" /\ bars.status = "none" /\ Normalized /\ hist.data = data.out)
        => /\ hist.status = "ok"
           /\ Len(hist.cells) = Len(hist.data)
           /\ \A k \in 1..Len(hist.cells) :
                 /\ hist.cells[k] \in Cells(hist.n)
                 /\ \E e \in 1..Len(hist.X[hist.cells[k]]) :
                       hist.X[hist.cells[k]][e] = hist.data[k]

C10_Witness ==
    /\ hist.status = "ok"
    /\ Normalized
    /\ hist.data = data.out
    /\ \E k1, k2 \in 1..Len(hist.cells) :
          hist.cells[k1][1] = hist.n - 1 /\ hist.cells[k2][1] = 0
====
